---------------------------- MODULE Spec2Model ----------------------------
(***************************************************************************)
(* A model of src/server.py, the OneNote MCP server: the catalog built     *)
(* from the backup directory, the read tools that resolve names against    *)
(* it, the search over the canonical files, and the write path that        *)
(* drives the OneNote automation surface through generated scripts.        *)
(*                                                                         *)
(* Strings are sequences of code points; a code point is written as a      *)
(* one-token TLA+ string ("A", " ", and "I_dot" for U+0130, "dot_above"    *)
(* for U+0307).                                                            *)
(***************************************************************************)
EXTENDS Integers, Sequences, FiniteSets, TLC

VARIABLES
    keyIn,      \* a base name, a date stamp and a sub-path, for the section keys
    keyOut,     \* the section keys derived for the two file names of keyIn
    disk,       \* the files under the backup directory, in enumeration order
    notebooks,  \* the catalog the last tool call built
    reply,      \* what the last tool call returned
    snipIn,     \* a text fragment and a search string
    snipOut,    \* the snippet search_notes builds for snipIn
    findIn,     \* a hierarchy of the OneNote app, how fetching it ends, two names
    findOut,    \* what _com_find_section_id returns for findIn
    live,       \* the hierarchy of the running OneNote app
    pages,      \* the pages the OneNote app holds, in document order
    comCall,    \* the write call in progress: its script, position and locals
    comLog,     \* the automation-surface steps the call in progress has run
    comReply,   \* what the last write call returned
    scanIn,     \* a backup directory and the path of one file below it
    scanOut     \* whether the catalog scan takes the file of scanIn

keyVars == <<keyIn, keyOut>>
readVars == <<disk, notebooks, reply>>
snipVars == <<snipIn, snipOut>>
findVars == <<findIn, findOut>>
comVars == <<live, pages, comCall, comLog, comReply>>
scanVars == <<scanIn, scanOut>>
vars == <<keyVars, readVars, snipVars, findVars, comVars, scanVars>>

\* Each part of the program is checked on its own specification, in which the
\* variables of the other parts stay empty.


-----------------------------------------------------------------------------
(* Code points and Python's str operations                                 *)

\* ord(c) for the code points the model uses.
Ord ==
       (" " :> 32) @@ ("(" :> 40) @@ (")" :> 41) @@ ("," :> 44) @@ ("-" :> 45)
    @@ ("." :> 46) @@ ("/" :> 47) @@ ("|" :> 124) @@ ("0" :> 48) @@ ("1" :> 49)
    @@ ("2" :> 50) @@ ("3" :> 51) @@ ("4" :> 52) @@ ("5" :> 53) @@ ("6" :> 54)
    @@ ("7" :> 55) @@ ("8" :> 56) @@ ("9" :> 57) @@ ("A" :> 65) @@ ("B" :> 66)
    @@ ("C" :> 67) @@ ("D" :> 68) @@ ("E" :> 69) @@ ("F" :> 70) @@ ("G" :> 71)
    @@ ("H" :> 72) @@ ("I" :> 73) @@ ("J" :> 74) @@ ("K" :> 75) @@ ("L" :> 76)
    @@ ("M" :> 77) @@ ("N" :> 78) @@ ("O" :> 79) @@ ("P" :> 80) @@ ("Q" :> 81)
    @@ ("R" :> 82) @@ ("S" :> 83) @@ ("T" :> 84) @@ ("U" :> 85) @@ ("V" :> 86)
    @@ ("W" :> 87) @@ ("X" :> 88) @@ ("Y" :> 89) @@ ("Z" :> 90) @@ ("a" :> 97)
    @@ ("b" :> 98) @@ ("c" :> 99) @@ ("d" :> 100) @@ ("e" :> 101) @@ ("f" :> 102)
    @@ ("g" :> 103) @@ ("h" :> 104) @@ ("i" :> 105) @@ ("j" :> 106) @@ ("k" :> 107)
    @@ ("l" :> 108) @@ ("m" :> 109) @@ ("n" :> 110) @@ ("o" :> 111) @@ ("p" :> 112)
    @@ ("q" :> 113) @@ ("r" :> 114) @@ ("s" :> 115) @@ ("t" :> 116) @@ ("u" :> 117)
    @@ ("v" :> 118) @@ ("w" :> 119) @@ ("x" :> 120) @@ ("y" :> 121) @@ ("z" :> 122)
    @@ ("I_dot" :> 304) @@ ("dot_above" :> 775)

Digits == {"0", "1", "2", "3", "4", "5", "6", "7", "8", "9"}

\* str.isspace() on one code point (the only whitespace the model uses).
IsSpace(c) == c = " "

\* str.lower() of one code point: a string, since U+0130 lowers to two.
LowerTable ==
    [c \in DOMAIN Ord |->
        IF c = "I_dot" THEN <<"i", "dot_above">>
        ELSE IF Ord[c] >= 65 /\ Ord[c] <= 90
        THEN <<CHOOSE d \in DOMAIN Ord : Ord[d] = Ord[c] + 32>>
        ELSE <<c>>]

LowerChar(c) == LowerTable[c]

RECURSIVE Lower(_)
\* str.lower(): the lowered code points, concatenated (by halves).
Lower(s) ==
    IF s = <<>> THEN <<>>
    ELSE IF Len(s) = 1 THEN LowerChar(s[1])
    ELSE LET h == Len(s) \div 2
         IN Lower(SubSeq(s, 1, h)) \o Lower(SubSeq(s, h + 1, Len(s)))

RECURSIVE LStrip(_)
LStrip(s) == IF s # <<>> /\ IsSpace(Head(s)) THEN LStrip(Tail(s)) ELSE s

RECURSIVE RStrip(_)
RStrip(s) ==
    IF s # <<>> /\ IsSpace(s[Len(s)]) THEN RStrip(SubSeq(s, 1, Len(s) - 1)) ELSE s

\* str.strip()
Strip(s) == LStrip(RStrip(s))

\* str.endswith(suffix)
EndsWith(s, suffix) ==
    /\ Len(s) >= Len(suffix)
    /\ SubSeq(s, Len(s) - Len(suffix) + 1, Len(s)) = suffix

\* str.startswith(prefix)
StartsWith(s, prefix) ==
    /\ Len(s) >= Len(prefix)
    /\ SubSeq(s, 1, Len(prefix)) = prefix

\* s[a:b] for 0 <= a and 0 <= b.
Slice(s, a, b) ==
    IF a >= b \/ a >= Len(s) THEN <<>>
    ELSE SubSeq(s, a + 1, IF b <= Len(s) THEN b ELSE Len(s))

\* a < b for Python strings: lexicographic by code point.
RECURSIVE StrLess(_, _)
StrLess(a, b) ==
    IF b = <<>> THEN FALSE
    ELSE IF a = <<>> THEN TRUE
    ELSE IF Head(a) # Head(b) THEN Ord[Head(a)] < Ord[Head(b)]
    ELSE StrLess(Tail(a), Tail(b))

\* sep.join(parts)
RECURSIVE Join(_, _)
Join(sep, parts) ==
    IF parts = <<>> THEN <<>>
    ELSE IF Len(parts) = 1 THEN parts[1]
    ELSE parts[1] \o sep \o Join(sep, Tail(parts))

-----------------------------------------------------------------------------
(* The section key of a file: _discover_notebooks, lines 108-126           *)

DotOne == <<".", "o", "n", "e">>
Unnamed == <<"(", "u", "n", "n", "a", "m", "e", "d", ")">>

\* re.sub(r"\.one$", "", s)
StripOne(s) == IF EndsWith(s, DotOne) THEN SubSeq(s, 1, Len(s) - 4) ELSE s

\* t matches \(On \d+-\d+-\d+\) as a whole.
IsDateStamp(t) ==
    /\ Len(t) >= 10
    /\ SubSeq(t, 1, 4) = <<"(", "O", "n", " ">>
    /\ t[Len(t)] = ")"
    /\ LET m == SubSeq(t, 5, Len(t) - 1)
       IN \E i, j \in 2..(Len(m) - 1) :
             /\ i + 1 < j
             /\ m[i] = "-" /\ m[j] = "-"
             /\ \A k \in (1..Len(m)) \ {i, j} : m[k] \in Digits

\* A mutant of StripDate: the pattern asks for whitespace before the stamp (\s+).
StripDateNeedsSpace(s) ==
    LET starts == {k \in 2..Len(s) :
                     IsDateStamp(SubSeq(s, k, Len(s))) /\ IsSpace(s[k - 1])}
    IN IF starts = {} THEN s
       ELSE LET k == CHOOSE x \in starts : TRUE
            IN RStrip(SubSeq(s, 1, k - 1))

\* re.sub(r"\s*\(On \d+-\d+-\d+\)$", "", s): the stamp at the end of s goes, with
\* the whitespace before it.
StripDate(s) ==
    LET starts == {k \in 1..Len(s) : IsDateStamp(SubSeq(s, k, Len(s)))}
    IN IF starts = {} THEN s
       ELSE LET k == CHOOSE x \in starts : \A y \in starts : x <= y
            IN RStrip(SubSeq(s, 1, k - 1))

\* section_name of lines 111-119.
SectionName(fname) ==
    LET s == Strip(StripOne(StripDate(StripOne(fname))))
    IN IF s = <<>> THEN Unnamed ELSE s

\* section_key of lines 122-126: the sub-path below the notebook, then the name.
SectionKey(relParts, fname) ==
    IF relParts # <<>>
    THEN Join(<<"/">>, relParts) \o <<"/">> \o SectionName(fname)
    ELSE SectionName(fname)

-----------------------------------------------------------------------------
(* Section keys of the two snapshot names of one base (lines 108-126)      *)

\* The longest base name is MaxPieces pieces long.
MaxPieces == 3

\* What a base name is made of: letters, a blank, an extension, a date stamp.
Pieces ==
    { <<"A">>, <<"b">>, <<" ">>, DotOne,
      <<"(", "O", "n", " ", "1", "-", "4", "-", "2", "0", "2", "6", ")">> }

RECURSIVE Concat(_)
Concat(ps) == IF ps = <<>> THEN <<>> ELSE Head(ps) \o Concat(Tail(ps))

Bases == {Concat(ps) : ps \in UNION {[1..n -> Pieces] : n \in 0..MaxPieces}}

\* The digit groups of a date stamp.
DateParts == { <<"1">>, <<"1", "2">>, <<"2", "0", "2", "6">> }

\* The sub-path of the file below its notebook directory.
RelChoices == { <<>>, <<<<"s">>>> }

NoKey == <<"?">>

\* '<base>.one'
PlainName(base) == base \o DotOne

\* '<base>(On d1-d2-d3).one'
DatedName(base, d1, d2, d3) ==
    base \o <<"(", "O", "n", " ">> \o d1 \o <<"-">> \o d2 \o <<"-">> \o d3
         \o <<")">> \o DotOne

KeyInit ==
    /\ scanIn = <<>> /\ scanOut = <<>>
    /\ live = <<>> /\ pages = <<>> /\ comCall = <<>> /\ comLog = <<>> /\ comReply = <<>>
    /\ disk = <<>> /\ notebooks = <<>> /\ reply = <<>>
    /\ snipIn = <<>> /\ snipOut = <<>>
    /\ findIn = <<>> /\ findOut = <<>>
    /\ keyIn \in [base : Bases, d1 : DateParts, d2 : {<<"4">>, <<"1", "0">>},
                  d3 : {<<"2", "0", "2", "6">>}, rel : RelChoices]
    /\ keyOut = [plain |-> NoKey, dated |-> NoKey]

\* Lines 111-126 on the file '<base>.one'.
DerivePlainKey ==
    /\ keyOut.plain = NoKey
    /\ keyOut' = [keyOut EXCEPT !.plain = SectionKey(keyIn.rel, PlainName(keyIn.base))]
    /\ UNCHANGED <<keyIn, readVars, snipVars, findVars, comVars, scanVars>>

\* Lines 111-126 on the file '<base>(On d1-d2-d3).one'.
DeriveDatedKey ==
    /\ keyOut.dated = NoKey
    /\ keyOut' = [keyOut EXCEPT !.dated =
                     SectionKey(keyIn.rel,
                                DatedName(keyIn.base, keyIn.d1, keyIn.d2, keyIn.d3))]
    /\ UNCHANGED <<keyIn, readVars, snipVars, findVars, comVars, scanVars>>

KeyNext == DerivePlainKey \/ DeriveDatedKey

SpecKey == KeyInit /\ [][KeyNext]_vars

BothKeysDerived == keyOut.plain # NoKey /\ keyOut.dated # NoKey

EndsInDateStamp(s) == \E k \in 1..Len(s) : IsDateStamp(SubSeq(s, k, Len(s)))

\* A base whose trimmed form is a name, with no extension and no stamp of its own.
PlainBase(b) ==
    /\ Strip(b) # <<>>
    /\ ~EndsWith(Strip(b), DotOne)
    /\ ~EndsInDateStamp(Strip(b))

\* C2 as stated: for every base and every digit triple the keys of '<base>.one' and
\* '<base>(On d1-d2-d3).one' are equal, and equal the trimmed base.
C2_KeyIsTrimmedBase ==
    BothKeysDerived =>
        /\ keyOut.plain = keyOut.dated
        /\ keyOut.plain = Strip(keyIn.base)

\* C2 amended: for a file directly in the notebook directory whose trimmed base is
\* non-empty and ends neither in '.one' nor in a date stamp, both keys equal the
\* trimmed base, whatever the digits of the stamp.
C2_KeyIsTrimmedPlainBase ==
    (BothKeysDerived /\ keyIn.rel = <<>> /\ PlainBase(keyIn.base)) =>
        /\ keyOut.plain = keyOut.dated
        /\ keyOut.plain = Strip(keyIn.base)

\* Both keys derived for the base 'A ' (trimming matters) at the notebook's root.
C2_Witness ==
    /\ BothKeysDerived
    /\ keyIn.rel = <<>>
    /\ keyIn.base = <<"A", " ">>
    /\ keyIn.d1 = <<"1", "2">>

-----------------------------------------------------------------------------
(* The backup directory: files, their metadata and their decoded content   *)

\* ONENOTE_DIR (lines 47-53), as the string str(path) starts with.
RootDir == <<"/", "d">>

RecycleBin == <<"R", "e", "c", "y", "c", "l", "e", "B", "i", "n">>

\* The first index (from 0) at which needle occurs in hay, or -1: str.find.
Find(hay, needle) ==
    LET hits == {i \in 0..(Len(hay) - Len(needle)) :
                    SubSeq(hay, i + 1, i + Len(needle)) = needle}
    IN IF hits = {} THEN -1 ELSE CHOOSE i \in hits : \A j \in hits : i <= j

\* needle in hay
Contains(hay, needle) == Find(hay, needle) >= 0

\* str(one_file): the root, the notebook directory, the sub-path, the file name.
PathStrUnder(root, f) == Join(<<"/">>, <<root, f.nb>> \o f.rel \o <<f.fname>>)

PathStr(f) == PathStrUnder(RootDir, f)

\* Lines 103-106: rglob("*.one") yields the file and the scan does not skip it.
Taken(root, f) ==
    /\ EndsWith(f.fname, DotOne)
    /\ ~Contains(PathStrUnder(root, f), RecycleBin)

\* A property record of the decoder whose value is a dict with a str text.
TextProp(type, text) == [type |-> type, val |-> "dict", text |-> "str", chars |-> text]

\* The text fragments of the large file: 'q01x', 'q02x', ...
BigFrags == 31

DigitOf(n) == CHOOSE d \in Digits : Ord[d] = 48 + n

BigText(i) == <<"q", DigitOf(i \div 10), DigitOf(i % 10), "x">>

BigProps == [i \in 1..BigFrags |-> TextProp("jcidRichTextOENode", BigText(i))]

\* Records the extraction skips, around two it keeps.
MixedProps ==
    << [type |-> "jcidPageNode", val |-> "notdict", text |-> "none", chars |-> <<>>],
       TextProp("jcidTitleNode", <<" ", "Q", " ", "i", "n", " ", "A", "b", " ">>),
       [type |-> "jcidRichTextOENode", val |-> "dict", text |-> "none", chars |-> <<>>],
       [type |-> "jcidRichTextOENode", val |-> "dict", text |-> "bytes", chars |-> <<"q">>],
       TextProp("jcidRichTextOENode", <<" ", " ">>),
       TextProp("jcidRichTextOENode", <<"z", "q", "z">>) >>

SmallProps == << TextProp("jcidRichTextOENode", <<"s", "q">>) >>

\* Content on which OneDocment(f) or get_properties() raises.
Undecodable == [ok |-> FALSE, props |-> <<>>]

\* The files that can be on disk: path, byte size, and what the
\* decoder makes of the content (its property records, or a failure).
FilePool ==
    { [nb |-> <<"N", "b">>, rel |-> <<>>,
       fname |-> <<"A", "l", " ", "(", "O", "n", " ", "1", "-", "4", "-", "2", "0", "2", "6", ")">> \o DotOne,
       size |-> 1536, data |-> [ok |-> TRUE, props |-> BigProps]],
      [nb |-> <<"N", "b">>, rel |-> <<>>,
       fname |-> <<"A", "l", " ", "(", "O", "n", " ", "1", "-", "5", "-", "2", "0", "2", "6", ")">> \o DotOne,
       size |-> 2560, data |-> [ok |-> TRUE, props |-> SmallProps]],
      [nb |-> <<"N", "b">>, rel |-> <<>>,
       fname |-> <<"a", "l">> \o DotOne,
       size |-> 512, data |-> Undecodable],
      [nb |-> <<"A", "b">>, rel |-> <<>>,
       fname |-> <<"B">> \o DotOne \o DotOne,
       size |-> 2048, data |-> [ok |-> TRUE, props |-> MixedProps]],
      [nb |-> <<"n", "b">>, rel |-> <<<<"s">>>>,
       fname |-> <<"A", "l">> \o DotOne,
       size |-> 100, data |-> [ok |-> TRUE, props |-> SmallProps]],
      [nb |-> <<"n", "b">>, rel |-> <<<<"O", "n", "e">> \o RecycleBin>>,
       fname |-> <<"A", "l">> \o DotOne,
       size |-> 100, data |-> [ok |-> TRUE, props |-> SmallProps]] }

\* At most MaxFiles files are on disk, with modification times 1..MaxMtime.
MaxFiles == 2
MaxMtime == 2

SamePath(f, g) == f.nb = g.nb /\ f.rel = g.rel /\ f.fname = g.fname

-----------------------------------------------------------------------------
(* _discover_notebooks (lines 71-144)                                      *)

\* notebook_dir.rglob("*.one") without the recycle bin (lines 103-106), in the
\* order the directory enumeration yields the files.
CandidateFiles(files, nb) ==
    SelectSeq(files, LAMBDA f : f.nb = nb /\ Taken(RootDir, f))

RECURSIVE DirsOf(_)
\* ONENOTE_DIR.iterdir(): the notebook directories, in enumeration order.
DirsOf(files) ==
    IF files = <<>> THEN <<>>
    ELSE LET rest == DirsOf(SubSeq(files, 1, Len(files) - 1))
             d == files[Len(files)].nb
         IN IF \E i \in 1..Len(rest) : rest[i] = d THEN rest ELSE Append(rest, d)

\* Lines 128-131: the file joins its section, a new one when the key is new.
AddToSection(sections, f) ==
    LET key == SectionKey(f.rel, f.fname)
    IN IF \E i \in 1..Len(sections) : sections[i].key = key
       THEN [i \in 1..Len(sections) |->
                IF sections[i].key = key
                THEN [sections[i] EXCEPT !.files = Append(@, f)]
                ELSE sections[i]]
       ELSE Append(sections, [key |-> key, files |-> <<f>>])

RECURSIVE GroupFiles(_)
\* The loop of lines 103-131.
GroupFiles(files) ==
    IF files = <<>> THEN <<>>
    ELSE AddToSection(GroupFiles(SubSeq(files, 1, Len(files) - 1)), files[Len(files)])

\* A mutant of InsertByMtime: ascending order (reverse=True left out).
InsertByMtimeAscending(sorted, f) ==
    LET before == {i \in 1..Len(sorted) : sorted[i].mtime <= f.mtime}
        n == Cardinality(before)
    IN SubSeq(sorted, 1, n) \o <<f>> \o SubSeq(sorted, n + 1, Len(sorted))

\* One step of the stable sort of line 135: f goes behind every file at least as
\* recent.
InsertByMtime(sorted, f) ==
    LET before == {i \in 1..Len(sorted) : sorted[i].mtime >= f.mtime}
        n == Cardinality(before)
    IN SubSeq(sorted, 1, n) \o <<f>> \o SubSeq(sorted, n + 1, Len(sorted))

RECURSIVE SortByMtime(_)
\* files.sort(key=mtime, reverse=True): descending, equal times in their old order.
SortByMtime(files) ==
    IF files = <<>> THEN <<>>
    ELSE InsertByMtime(SortByMtime(SubSeq(files, 1, Len(files) - 1)), files[Len(files)])

\* Lines 134-136.
WithLatest(sec) ==
    LET sorted == SortByMtime(sec.files)
    IN [key |-> sec.key, files |-> sorted, latest |-> sorted[1]]

SectionsOf(files, nb) ==
    LET grouped == GroupFiles(CandidateFiles(files, nb))
    IN [i \in 1..Len(grouped) |-> WithLatest(grouped[i])]

\* The catalog: the notebooks with at least one section (line 138), in enumeration
\* order, as the dict of line 94 keeps them. A missing root (line 90) is the
\* empty directory.
DiscoverNotebooks(files) ==
    LET dirs == DirsOf(files)
        all == [i \in 1..Len(dirs) |-> [name |-> dirs[i], sections |-> SectionsOf(files, dirs[i])]]
    IN SelectSeq(all, LAMBDA n : n.sections # <<>>)

-----------------------------------------------------------------------------
(* _parse_one_file (lines 147-173)                                         *)

\* Line 167: the record carries a non-blank str under RichEditTextUnicode.
KeepsText(prop) ==
    /\ prop.val = "dict"
    /\ prop.text = "str"
    /\ prop.chars # <<>>
    /\ Strip(prop.chars) # <<>>

\* A mutant of ParseOneFile: the decoder's exception is not caught.
ParseOneFileUncaught(f) ==
    IF ~f.data.ok THEN [raised |-> TRUE, texts |-> <<>>]
    ELSE LET kept == SelectSeq(f.data.props, KeepsText)
         IN [raised |-> FALSE, texts |-> [i \in 1..Len(kept) |-> Strip(kept[i].chars)]]

\* The texts of a file, and whether an exception leaves the function. The decoder
\* raises (lines 155-158) before any text is appended; line 170 catches it.
ParseOneFile(f) ==
    IF ~f.data.ok THEN [raised |-> FALSE, texts |-> <<>>]
    ELSE LET kept == SelectSeq(f.data.props, KeepsText)
         IN [raised |-> FALSE, texts |-> [i \in 1..Len(kept) |-> Strip(kept[i].chars)]]

-----------------------------------------------------------------------------
(* The read tools (lines 221-386)                                          *)

\* One step of sorted(): s goes before the first string greater than it.
InsertStr(sorted, s) ==
    LET n == Cardinality({i \in 1..Len(sorted) : ~StrLess(s, sorted[i])})
    IN SubSeq(sorted, 1, n) \o <<s>> \o SubSeq(sorted, n + 1, Len(sorted))

RECURSIVE SortStr(_)
\* sorted() of a list of strings.
SortStr(names) ==
    IF names = <<>> THEN <<>>
    ELSE InsertStr(SortStr(SubSeq(names, 1, Len(names) - 1)), names[Len(names)])

\* A mutant of AvailableNames: the names in dict order.
AvailableNamesUnsorted(names) == names

\* ", ".join(sorted(keys)) of lines 236, 265, 275, 366, as the list it joins.
AvailableNames(names) == SortStr(names)

NamesOf(nbs) == [i \in 1..Len(nbs) |-> nbs[i].name]
KeysOf(sections) == [i \in 1..Len(sections) |-> sections[i].key]

\* sorted(d.items()): the entries by ascending key (keys are unique).
SortedEntries(entries, keys) ==
    LET order == SortStr(keys)
    IN [i \in 1..Len(order) |->
          entries[CHOOSE j \in 1..Len(keys) : keys[j] = order[i]]]

\* A mutant of FirstIgnoringCase: the comparison without .lower().
FirstExact(names, q) ==
    LET hits == {i \in 1..Len(names) : names[i] = q}
    IN IF hits = {} THEN 0 ELSE CHOOSE i \in hits : \A j \in hits : i <= j

\* The loops of lines 231-234, 260-263, 270-273, 360-364: the index of the first
\* name equal to q ignoring case, 0 when there is none.
FirstIgnoringCase(names, q) ==
    LET hits == {i \in 1..Len(names) : Lower(names[i]) = Lower(q)}
    IN IF hits = {} THEN 0 ELSE CHOOSE i \in hits : \A j \in hits : i <= j

\* f"{size / 1024:.0f}": to the nearest integer, a half to the even one.
SizeKb(size) ==
    LET q == size \div 1024
        r == size % 1024
    IN IF 2 * r > 1024 \/ (2 * r = 1024 /\ q % 2 = 1) THEN q + 1 ELSE q

\* list_sections (lines 221-245).
ListSections(nbs, q) ==
    LET names == NamesOf(nbs)
        idx == IF \E i \in 1..Len(names) : names[i] = q
               THEN CHOOSE i \in 1..Len(names) : names[i] = q
               ELSE FirstIgnoringCase(names, q)
    IN IF idx = 0
       THEN [tool |-> "list_sections", kind |-> "NotebookNotFound", query |-> q,
             available |-> AvailableNames(names)]
       ELSE LET secs == SortedEntries(nbs[idx].sections, KeysOf(nbs[idx].sections))
            IN [tool |-> "list_sections", kind |-> "ok", query |-> q,
                notebook |-> names[idx],
                lines |-> [i \in 1..Len(secs) |->
                             [section |-> secs[i].key,
                              kb |-> SizeKb(secs[i].latest.size)]]]

\* read_section (lines 248-284). The reply's texts are the strings line 284 joins.
ReadSection(nbs, q, s) ==
    LET names == NamesOf(nbs)
        idx == FirstIgnoringCase(names, q)
    IN IF idx = 0
       THEN [tool |-> "read_section", kind |-> "NotebookNotFound", query |-> q,
             available |-> AvailableNames(names)]
       ELSE LET keys == KeysOf(nbs[idx].sections)
                sidx == FirstIgnoringCase(keys, s)
            IN IF sidx = 0
               THEN [tool |-> "read_section", kind |-> "SectionNotFound",
                     query |-> q, notebook |-> names[idx], squery |-> s,
                     available |-> AvailableNames(keys)]
               ELSE LET parsed == ParseOneFile(nbs[idx].sections[sidx].latest)
                    IN IF parsed.raised
                       THEN [tool |-> "read_section", kind |-> "exception"]
                       ELSE [tool |-> "read_section",
                             kind |-> IF parsed.texts = <<>> THEN "NoText" ELSE "ok",
                             query |-> q, notebook |-> names[idx], squery |-> s,
                             section |-> keys[sidx], texts |-> parsed.texts]

PreviewLimit == 200

\* Lines 376-383: the preview line of one section.
Preview(texts) ==
    LET joined == Join(<<" ", "|", " ">>, texts)
    IN IF Len(joined) > PreviewLimit
       THEN SubSeq(joined, 1, PreviewLimit) \o <<".", ".", ".">>
       ELSE joined

\* get_notebook_summary (lines 350-386).
GetNotebookSummary(nbs, q) ==
    LET names == NamesOf(nbs)
        idx == FirstIgnoringCase(names, q)
    IN IF idx = 0
       THEN [tool |-> "get_notebook_summary", kind |-> "NotebookNotFound",
             query |-> q, available |-> AvailableNames(names)]
       ELSE LET secs == SortedEntries(nbs[idx].sections, KeysOf(nbs[idx].sections))
                parsed == [i \in 1..Len(secs) |-> ParseOneFile(secs[i].latest)]
            IN IF \E i \in 1..Len(secs) : parsed[i].raised
               THEN [tool |-> "get_notebook_summary", kind |-> "exception"]
               ELSE [tool |-> "get_notebook_summary", kind |-> "ok", query |-> q,
                     notebook |-> names[idx],
                     lines |-> [i \in 1..Len(secs) |->
                                  [section |-> secs[i].key,
                                   hasText |-> parsed[i].texts # <<>>,
                                   preview |-> Preview(parsed[i].texts)]]]

-----------------------------------------------------------------------------
(* search_notes (lines 287-326)                                            *)

SnippetRadius == 80
MaxResults == 30

Max(a, b) == IF a >= b THEN a ELSE b
Min(a, b) == IF a <= b THEN a ELSE b

Ellipsis == <<".", ".", ".">>

\* Lines 309-311: the index of the match, found in the lowered text, and the
\* bounds of the slice taken from the text itself.
SnippetWindow(text, query) ==
    LET idx == Find(Lower(text), Lower(query))
    IN [idx |-> idx,
        start |-> Max(0, idx - SnippetRadius),
        end |-> Min(Len(text), idx + Len(query) + SnippetRadius)]

\* Lines 312-316.
Snippet(text, query) ==
    LET w == SnippetWindow(text, query)
    IN (IF w.start > 0 THEN Ellipsis ELSE <<>>)
       \o Strip(Slice(text, w.start, w.end))
       \o (IF w.end < Len(text) THEN Ellipsis ELSE <<>>)

\* Line 307.
Matches(text, query) == Contains(Lower(text), Lower(query))

\* Lines 306-320 for one section: one result per matching text, in text order.
SectionResults(nbName, sec, texts, query) ==
    LET hits == SelectSeq(texts, LAMBDA t : Matches(t, query))
    IN [i \in 1..Len(hits) |->
          [nb |-> nbName, sec |-> sec.key, snippet |-> Snippet(hits[i], query)]]

RECURSIVE NotebookResults(_, _, _)
\* The loop of line 302 over the sections (already sorted) of one notebook.
NotebookResults(nbName, secs, query) ==
    IF secs = <<>> THEN <<>>
    ELSE SectionResults(nbName, Head(secs), ParseOneFile(Head(secs).latest).texts, query)
         \o NotebookResults(nbName, Tail(secs), query)

RECURSIVE CatalogResults(_, _)
\* The loop of line 301 over the notebooks (already sorted).
CatalogResults(nbs, query) ==
    IF nbs = <<>> THEN <<>>
    ELSE NotebookResults(Head(nbs).name,
                         SortedEntries(Head(nbs).sections, KeysOf(Head(nbs).sections)),
                         query)
         \o CatalogResults(Tail(nbs), query)

\* A mutant of Listed: the last MaxResults results.
ListedLast(results) ==
    SubSeq(results, Max(1, Len(results) - MaxResults + 1), Len(results))

\* results[:30] of line 326.
Listed(results) == SubSeq(results, 1, Min(MaxResults, Len(results)))

\* search_notes. found is the number of the header of line 325.
SearchNotes(nbs, query) ==
    LET sorted == SortedEntries(nbs, NamesOf(nbs))
        raised == \E i \in 1..Len(nbs) : \E j \in 1..Len(nbs[i].sections) :
                      ParseOneFile(nbs[i].sections[j].latest).raised
        results == CatalogResults(sorted, query)
    IN IF raised THEN [tool |-> "search_notes", kind |-> "exception"]
       ELSE IF results = <<>>
       THEN [tool |-> "search_notes", kind |-> "NoResults", query |-> query]
       ELSE [tool |-> "search_notes", kind |-> "ok", query |-> query,
             found |-> Len(results), results |-> Listed(results)]

-----------------------------------------------------------------------------
(* The read side as a state machine: the disk changes, tools are called    *)

NoReply == [tool |-> "none", kind |-> "none"]

\* Notebook names, section names and search strings the tools are called with.
NotebookQueries == { <<"n", "b">>, <<"N", "B">>, <<"a", "b">>, <<"z", "z">> }
SectionQueries == { <<"a", "l">>, <<"B">>, <<"z", "z">> }
SearchQueries == { <<"Q">>, <<"1", "X">>, <<"y", "y">> }

ReadInit ==
    /\ scanIn = <<>> /\ scanOut = <<>>
    /\ live = <<>> /\ pages = <<>> /\ comCall = <<>> /\ comLog = <<>> /\ comReply = <<>>
    /\ keyIn = <<>> /\ keyOut = <<>>
    /\ snipIn = <<>> /\ snipOut = <<>>
    /\ findIn = <<>> /\ findOut = <<>>
    /\ disk = <<>>
    /\ notebooks = <<>>
    /\ reply = NoReply

\* A file appears in the backup directory, last in its enumeration. Calls are
\* synchronous, one at a time: the disk changes between calls.
CreateFile ==
    /\ reply = NoReply
    /\ Len(disk) < MaxFiles
    /\ \E p \in FilePool, m \in 1..MaxMtime :
          /\ \A i \in 1..Len(disk) : ~SamePath(disk[i], p)
          /\ disk' = Append(disk, [nb |-> p.nb, rel |-> p.rel, fname |-> p.fname,
                                   size |-> p.size, data |-> p.data, mtime |-> m])
    /\ UNCHANGED <<notebooks, reply, keyVars, snipVars, findVars, comVars, scanVars>>

\* A file is written again: its modification time changes.
TouchFile ==
    /\ reply = NoReply
    /\ \E i \in 1..Len(disk), m \in 1..MaxMtime :
          /\ m # disk[i].mtime
          /\ disk' = [disk EXCEPT ![i].mtime = m]
    /\ UNCHANGED <<notebooks, reply, keyVars, snipVars, findVars, comVars, scanVars>>

CallListSections ==
    /\ reply = NoReply
    /\ \E q \in NotebookQueries :
          /\ notebooks' = DiscoverNotebooks(disk)
          /\ reply' = ListSections(notebooks', q)
    /\ UNCHANGED <<disk, keyVars, snipVars, findVars, comVars, scanVars>>

CallReadSection ==
    /\ reply = NoReply
    /\ \E q \in NotebookQueries, s \in SectionQueries :
          /\ notebooks' = DiscoverNotebooks(disk)
          /\ reply' = ReadSection(notebooks', q, s)
    /\ UNCHANGED <<disk, keyVars, snipVars, findVars, comVars, scanVars>>

CallGetNotebookSummary ==
    /\ reply = NoReply
    /\ \E q \in NotebookQueries :
          /\ notebooks' = DiscoverNotebooks(disk)
          /\ reply' = GetNotebookSummary(notebooks', q)
    /\ UNCHANGED <<disk, keyVars, snipVars, findVars, comVars, scanVars>>

CallSearchNotes ==
    /\ reply = NoReply
    /\ \E q \in SearchQueries :
          /\ notebooks' = DiscoverNotebooks(disk)
          /\ reply' = SearchNotes(notebooks', q)
    /\ UNCHANGED <<disk, keyVars, snipVars, findVars, comVars, scanVars>>

\* The string goes back to the client; the catalog of the call is dropped (nothing
\* is cached across calls) and the server takes the next call.
ReturnReply ==
    /\ reply # NoReply
    /\ notebooks' = <<>>
    /\ reply' = NoReply
    /\ UNCHANGED <<disk, keyVars, snipVars, findVars, comVars, scanVars>>

ReadNext ==
    \/ CreateFile
    \/ TouchFile
    \/ CallListSections
    \/ CallReadSection
    \/ CallGetNotebookSummary
    \/ CallSearchNotes
    \/ ReturnReply

Spec == ReadInit /\ [][ReadNext]_vars

-----------------------------------------------------------------------------
(* Properties of the catalog and the read tools                            *)

\* seq lists the strings of the set names once each, in ascending order.
IsSortedListOf(seq, names) ==
    /\ Len(seq) = Cardinality(names)
    /\ {seq[i] : i \in 1..Len(seq)} = names
    /\ \A i, j \in 1..Len(seq) : i < j => StrLess(seq[i], seq[j])

\* C1: in the catalog _discover_notebooks builds, every section has at least one
\* file, its latest file is one of its files, and no file of the section is more
\* recently modified than the latest.
C1_LatestIsNewest ==
    \A i \in 1..Len(notebooks) : \A j \in 1..Len(notebooks[i].sections) :
        LET sec == notebooks[i].sections[j]
        IN /\ Len(sec.files) >= 1
           /\ \E k \in 1..Len(sec.files) : sec.files[k] = sec.latest
           /\ \A k \in 1..Len(sec.files) : sec.files[k].mtime <= sec.latest.mtime

\* 'Al (On 1-4-2026).one' at time 1 and 'Al (On 1-5-2026).one' at time 2, the newer
\* one enumerated last: one section 'Al' whose latest file is the 1-5-2026 one.
C1_Witness ==
    /\ Len(notebooks) = 1
    /\ Len(notebooks[1].sections) = 1
    /\ notebooks[1].sections[1].key = <<"A", "l">>
    /\ Len(notebooks[1].sections[1].files) = 2
    /\ notebooks[1].sections[1].latest.mtime = 2
    /\ notebooks[1].sections[1].latest.fname[10] = "5"
    /\ disk[1].mtime = 1 /\ disk[2].mtime = 2

\* C3: a notebook or section lookup of list_sections, read_section and
\* get_notebook_summary resolves to an entry whose name equals the query ignoring
\* case, or, when the catalog has no such entry, answers NotFound with all the
\* names of that level in ascending order.
C3_LookupTotal ==
    reply.tool \in {"list_sections", "read_section", "get_notebook_summary"} =>
        LET names == {notebooks[i].name : i \in 1..Len(notebooks)}
        IN IF reply.kind = "NotebookNotFound"
           THEN /\ \A n \in names : Lower(n) # Lower(reply.query)
                /\ IsSortedListOf(reply.available, names)
           ELSE /\ reply.notebook \in names
                /\ Lower(reply.notebook) = Lower(reply.query)
                /\ reply.tool = "read_section" =>
                     LET nb == CHOOSE i \in 1..Len(notebooks) :
                                  notebooks[i].name = reply.notebook
                         keys == {notebooks[nb].sections[j].key :
                                     j \in 1..Len(notebooks[nb].sections)}
                     IN IF reply.kind = "SectionNotFound"
                        THEN /\ \A k \in keys : Lower(k) # Lower(reply.squery)
                             /\ IsSortedListOf(reply.available, keys)
                        ELSE /\ reply.section \in keys
                             /\ Lower(reply.section) = Lower(reply.squery)

\* read_section('NB', 'zz'): the notebook resolves to 'Nb' ignoring case, the section
\* is not found, and the two sections are listed sorted though 'al' was found first.
C3_Witness ==
    /\ reply.tool = "read_section"
    /\ reply.kind = "SectionNotFound"
    /\ reply.query = <<"N", "B">>
    /\ reply.notebook = <<"N", "b">>
    /\ reply.available = << <<"A", "l">>, <<"a", "l">> >>
    /\ notebooks[1].sections[1].key = <<"a", "l">>

\* The strings of a set in ascending order.
Ascending(names) ==
    CHOOSE seq \in [1..Cardinality(names) -> names] : IsSortedListOf(seq, names)

RECURSIVE Flatten(_)
Flatten(seqs) == IF seqs = <<>> THEN <<>> ELSE Head(seqs) \o Flatten(Tail(seqs))

\* The results in generation order: notebooks ascending, sections ascending within
\* a notebook, one result per matching fragment of the latest file, in file order.
GenerationOrder(nbs, query) ==
    LET nbNames == Ascending({nbs[i].name : i \in 1..Len(nbs)})
        ofSection(nb, key) ==
            LET sec == CHOOSE x \in {nb.sections[j] : j \in 1..Len(nb.sections)} :
                           x.key = key
            IN SectionResults(nb.name, sec, ParseOneFile(sec.latest).texts, query)
        ofNotebook(name) ==
            LET nb == CHOOSE x \in {nbs[i] : i \in 1..Len(nbs)} : x.name = name
                keys == Ascending({nb.sections[j].key : j \in 1..Len(nb.sections)})
            IN Flatten([j \in 1..Len(keys) |-> ofSection(nb, keys[j])])
    IN Flatten([i \in 1..Len(nbNames) |-> ofNotebook(nbNames[i])])

\* C4: search_notes lists at most 30 results, and they are the first 30 (all, when
\* there are fewer) of the results in generation order.
C4_FirstThirtyInOrder ==
    (reply.tool = "search_notes" /\ reply.kind = "ok") =>
        LET gen == GenerationOrder(notebooks, reply.query)
        IN /\ Len(reply.results) <= 30
           /\ reply.results = SubSeq(gen, 1, Min(30, Len(gen)))

\* A search with more than 30 matching fragments, in two notebooks.
C4_Witness ==
    /\ reply.tool = "search_notes"
    /\ reply.kind = "ok"
    /\ reply.found > 30
    /\ Len(reply.results) = 30
    /\ reply.results[1].nb # reply.results[30].nb

\* The disk with every file the decoder fails on replaced by one without content.
Emptied(files) ==
    [i \in 1..Len(files) |->
        IF files[i].data.ok THEN files[i]
        ELSE [files[i] EXCEPT !.data = [ok |-> TRUE, props |-> <<>>]]]

\* The catalog without the content of the files: names, keys and paths.
Shape(nbs) ==
    [i \in 1..Len(nbs) |->
        [name |-> nbs[i].name,
         sections |-> [j \in 1..Len(nbs[i].sections) |->
             [key |-> nbs[i].sections[j].key,
              latest |-> nbs[i].sections[j].latest.fname,
              files |-> [k \in 1..Len(nbs[i].sections[j].files) |->
                            nbs[i].sections[j].files[k].fname]]]]]

\* C6: whatever files fail to decode, search_notes and get_notebook_summary raise no
\* exception and return what they return when those files hold no content, and the
\* catalog is the one built then.
C6_DecodeFailureIsNoContent ==
    reply.tool \in {"search_notes", "get_notebook_summary"} =>
        /\ reply.kind # "exception"
        /\ Shape(notebooks) = Shape(DiscoverNotebooks(Emptied(disk)))
        /\ reply.kind # "exception" =>
             reply = IF reply.tool = "search_notes"
                     THEN SearchNotes(DiscoverNotebooks(Emptied(disk)), reply.query)
                     ELSE GetNotebookSummary(DiscoverNotebooks(Emptied(disk)), reply.query)

\* A search that lists results of one file while the latest file of another section
\* fails to decode.
C6_Witness ==
    /\ reply.tool = "search_notes"
    /\ reply.kind = "ok"
    /\ \E i \in 1..Len(notebooks) : \E j \in 1..Len(notebooks[i].sections) :
          ~notebooks[i].sections[j].latest.data.ok

-----------------------------------------------------------------------------
(* The snippet of one matching fragment (lines 306-316)                    *)

\* A fragment starts with up to MaxDotted capital dotted I (U+0130).
MaxDotted == 2

\* n filler characters; with blanks, every second one inside is a blank.
Fill(n, blanks) ==
    [i \in 1..n |-> IF blanks /\ i % 2 = 0 /\ i < n THEN " " ELSE "x"]

\* Lengths of filler around the radius of the window, and short ones.
FillLengths ==
    {0, 1, SnippetRadius - 1, SnippetRadius, SnippetRadius + 1, SnippetRadius + 2}

\* Fragments as _parse_one_file yields them (stripped, not empty): dotted I, filler,
\* 'Qy', filler, and 'qy' once more or not.
SnipText(k, before, after, blanks, twice) ==
    [i \in 1..k |-> "I_dot"] \o Fill(before, blanks) \o <<"Q", "y">>
    \o Fill(after, blanks) \o (IF twice THEN <<"q", "y">> ELSE <<>>)

SnipInit ==
    /\ scanIn = <<>> /\ scanOut = <<>>
    /\ live = <<>> /\ pages = <<>> /\ comCall = <<>> /\ comLog = <<>> /\ comReply = <<>>
    /\ keyIn = <<>> /\ keyOut = <<>>
    /\ disk = <<>> /\ notebooks = <<>> /\ reply = <<>>
    /\ findIn = <<>> /\ findOut = <<>>
    /\ \E k \in 0..MaxDotted, before \in FillLengths, after \in FillLengths,
          blanks \in BOOLEAN, twice \in BOOLEAN, q \in {<<"q", "y">>, <<"Q", "Y">>} :
          snipIn = [text |-> SnipText(k, before, after, blanks, twice), query |-> q]
    /\ snipOut = [done |-> FALSE]

\* Lines 307-316 on one fragment that contains the query.
BuildSnippet ==
    /\ ~snipOut.done
    /\ Matches(snipIn.text, snipIn.query)
    /\ snipOut' = [done |-> TRUE,
                   window |-> SnippetWindow(snipIn.text, snipIn.query),
                   snippet |-> Snippet(snipIn.text, snipIn.query)]
    /\ UNCHANGED <<snipIn, keyVars, readVars, findVars, comVars, scanVars>>

SnipNext == BuildSnippet

SpecSnippet == SnipInit /\ [][SnipNext]_vars

\* The places (from 0) and lengths of the parts of text that equal the query
\* ignoring case.
Occurrences(text, query) ==
    {pl \in (0..Len(text)) \X (1..Len(Lower(query))) :
        /\ pl[1] + pl[2] <= Len(text)
        /\ Lower(SubSeq(text, pl[1] + 1, pl[1] + pl[2])) = Lower(query)}

\* C5: the snippet is cut around the first occurrence of the query in the fragment:
\* the window holds the occurrence, at most 80 characters of the fragment before
\* it and at most 80 after it, and the snippet starts with '...' exactly when the
\* window starts inside the fragment and ends with '...' exactly when it ends
\* inside.
C5_SnippetAroundFirstMatch ==
    snipOut.done =>
        LET text == snipIn.text
            w == snipOut.window
            occ == Occurrences(text, snipIn.query)
            first == CHOOSE pl \in occ : \A other \in occ : pl[1] <= other[1]
            p == first[1]
        IN /\ occ # {}
           /\ \E pl \in occ :
                 /\ pl[1] = p
                 /\ w.start <= p /\ p + pl[2] <= w.end
                 /\ p - w.start <= 80
                 /\ w.end - (p + pl[2]) <= 80
           /\ (w.start > 0) <=> StartsWith(snipOut.snippet, Ellipsis)
           /\ (w.end < Len(text)) <=> EndsWith(snipOut.snippet, Ellipsis)

-----------------------------------------------------------------------------
(* The hierarchy of the OneNote app and _com_find_section_id (lines 413-460) *)

\* Elements of the hierarchy XML: a section, and a section group with its children.
Sec(name, id, trashed) ==
    [tag |-> "Section", name |-> name, ID |-> id, isInRecycleBin |-> trashed,
     locked |-> FALSE]
Group(children) == [tag |-> "SectionGroup", children |-> children]

RECURSIVE IterSections(_)
\* nb.iter(Section): the sections below a node, in document order (depth first).
IterSections(nodes) ==
    IF nodes = <<>> THEN <<>>
    ELSE (IF Head(nodes).tag = "Section" THEN <<Head(nodes)>>
          ELSE IterSections(Head(nodes).children))
         \o IterSections(Tail(nodes))

\* Why the hierarchy could not be fetched: the script timed out, exited non-zero,
\* powershell.exe is absent (lines 404-410), or the XML did not parse (line 436).
HierarchyFaults == {"timeout", "error", "absent", "badxml"}

None == "None"

\* A mutant of FirstSectionId: sections in the recycle bin are not skipped.
FirstSectionIdAnyBin(sections, name) ==
    LET hits == {i \in 1..Len(sections) : Lower(sections[i].name) = Lower(name)}
    IN IF hits = {} THEN None
       ELSE sections[CHOOSE i \in hits : \A j \in hits : i <= j].ID

\* The loop of lines 455-459 over the sections of one notebook.
FirstSectionId(sections, name) ==
    LET hits == {i \in 1..Len(sections) :
                    /\ ~sections[i].isInRecycleBin
                    /\ Lower(sections[i].name) = Lower(name)}
    IN IF hits = {} THEN None
       ELSE sections[CHOOSE i \in hits : \A j \in hits : i <= j].ID

RECURSIVE FindInNotebooks(_, _, _)
\* The loop of lines 452-460 over the notebooks of the snapshot.
FindInNotebooks(nbs, notebookName, sectionName) ==
    IF nbs = <<>> THEN None
    ELSE IF Lower(Head(nbs).name) # Lower(notebookName)
    THEN FindInNotebooks(Tail(nbs), notebookName, sectionName)
    ELSE LET id == FirstSectionId(IterSections(Head(nbs).children), sectionName)
         IN IF id # None THEN id
            ELSE FindInNotebooks(Tail(nbs), notebookName, sectionName)

\* _com_find_section_id: fetch is "ok" or the fault that ended _com_get_hierarchy.
ComFindSectionId(hier, fetch, notebookName, sectionName) ==
    IF fetch # "ok" THEN None
    ELSE FindInNotebooks(hier, notebookName, sectionName)

\* The hierarchies have up to MaxNotebooks notebooks.
MaxNotebooks == 2

\* What a notebook holds; k makes the IDs of different notebooks differ.
Layouts(k) ==
    { <<>>,
      << Sec(<<"A", "l">>, <<"s", "1", k>>, FALSE) >>,
      << Sec(<<"a", "l">>, <<"s", "2", k>>, TRUE),
         Group(<< Sec(<<"B">>, <<"s", "3", k>>, FALSE),
                  Group(<< Sec(<<"A", "L">>, <<"s", "4", k>>, FALSE) >>) >>),
         Sec(<<"A", "l">>, <<"s", "5", k>>, FALSE) >>,
      << Group(<< Sec(<<"A", "l">>, <<"s", "6", k>>, TRUE) >>),
         Sec(<<"B">>, <<"s", "7", k>>, FALSE) >> }

LiveNames == { <<"N", "b">>, <<"N", "B">>, <<"Z", "z">> }

Hierarchies ==
    UNION { { [i \in 1..n |-> [name |-> names[i], children |-> lay[i]]] :
                names \in [1..n -> LiveNames],
                lay \in {f \in [1..n -> UNION {Layouts(DigitOf(k)) : k \in 1..n}] :
                            \A i \in 1..n : f[i] \in Layouts(DigitOf(i))} } :
            n \in 0..MaxNotebooks }

FindInit ==
    /\ scanIn = <<>> /\ scanOut = <<>>
    /\ live = <<>> /\ pages = <<>> /\ comCall = <<>> /\ comLog = <<>> /\ comReply = <<>>
    /\ keyIn = <<>> /\ keyOut = <<>>
    /\ disk = <<>> /\ notebooks = <<>> /\ reply = <<>>
    /\ snipIn = <<>> /\ snipOut = <<>>
    /\ findIn \in [hier : Hierarchies, fetch : {"ok"} \cup HierarchyFaults,
                   notebook : { <<"n", "b">>, <<"N", "b">> },
                   section : { <<"a", "l">>, <<"B">> }]
    /\ findOut = [done |-> FALSE]

\* One call of _com_find_section_id.
FindSection ==
    /\ ~findOut.done
    /\ findOut' = [done |-> TRUE,
                   id |-> ComFindSectionId(findIn.hier, findIn.fetch,
                                           findIn.notebook, findIn.section)]
    /\ UNCHANGED <<findIn, keyVars, readVars, snipVars, comVars, scanVars>>

FindNext == FindSection

SpecFind == FindInit /\ [][FindNext]_vars

\* The sections of the snapshot with the place of each in document order: the
\* number of its notebook, then its number among that notebook's sections.
Placed(hier) ==
    UNION { { [nb |-> i, at |-> j, sec |-> IterSections(hier[i].children)[j]] :
                j \in 1..Len(IterSections(hier[i].children)) } :
            i \in 1..Len(hier) }

Earlier(a, b) == a.nb < b.nb \/ (a.nb = b.nb /\ a.at < b.at)

\* What findSectionId is to return: the ID of the first of the sections cands, None
\* when there is none.
FirstOf(cands) ==
    IF cands = {} THEN None
    ELSE (CHOOSE c \in cands : \A d \in cands : d = c \/ Earlier(c, d)).sec.ID

\* C10 as stated: the ID of the first section, in document order, that is not
\* trashed and whose name equals the section name ignoring case, among the
\* notebooks whose name is exactly the notebook name; None when there is none.
C10_FirstSectionExactNotebook ==
    (findOut.done /\ findIn.fetch = "ok") =>
        findOut.id = FirstOf({c \in Placed(findIn.hier) :
                                 /\ findIn.hier[c.nb].name = findIn.notebook
                                 /\ ~c.sec.isInRecycleBin
                                 /\ Lower(c.sec.name) = Lower(findIn.section)})

\* C10 amended: once the snapshot is fetched, the ID of the first section, in
\* document order, that is not trashed and whose name equals the section name
\* ignoring case, among the notebooks whose name equals the notebook name ignoring
\* case; None when there is none, and when the snapshot cannot be fetched.
C10_FirstSectionIgnoringCase ==
    findOut.done =>
        findOut.id = IF findIn.fetch # "ok" THEN None
                     ELSE FirstOf({c \in Placed(findIn.hier) :
                                     /\ Lower(findIn.hier[c.nb].name) = Lower(findIn.notebook)
                                     /\ ~c.sec.isInRecycleBin
                                     /\ Lower(c.sec.name) = Lower(findIn.section)})

\* 'al' looked up in 'nb': the notebook 'NB' matches ignoring case only, its first
\* section 'al' is trashed, and the match inside the nested group comes before the
\* later top-level 'Al'.
C10_Witness ==
    /\ findOut.done
    /\ findIn.fetch = "ok"
    /\ findIn.notebook = <<"n", "b">>
    /\ findIn.section = <<"a", "l">>
    /\ Len(findIn.hier) = 2
    /\ findIn.hier[1].name = <<"Z", "z">>
    /\ findIn.hier[2].name = <<"N", "B">>
    /\ Len(findIn.hier[2].children) = 3
    /\ findOut.id = <<"s", "4", "2">>

-----------------------------------------------------------------------------
(* Page documents and the two mutations of them (lines 505-531, 553-562)   *)

\* one:T holding a CDATA section.
TextNode(cdata) == [tag |-> "T", cdata |-> cdata]

\* one:Title > one:OE > one:T
TitleOf(text) ==
    [tag |-> "Title", children |-> <<[tag |-> "OE", children |-> <<TextNode(text)>>]>>]

\* Lines 522-530 and 553-561: one:Outline > one:OEChildren > one:OE > one:T.
OutlineOf(body) ==
    [tag |-> "Outline",
     children |-> <<[tag |-> "OEChildren",
                     children |-> <<[tag |-> "OE",
                                     children |-> <<TextNode(body)>>]>>]>>]

\* A page document: the children of its root element, in document order.
Doc(children) == [root |-> "Page", children |-> children]

\* A script variable that holds no document: the fetch that was to fill it failed.
NoDoc == [root |-> "none", children |-> <<>>]

\* The first child of the root with the given tag, 0 without one.
FirstTagged(doc, tag) ==
    LET hits == {i \in 1..Len(doc.children) : doc.children[i].tag = tag}
    IN IF hits = {} THEN 0 ELSE CHOOSE x \in hits : \A y \in hits : x <= y

\* Lines 506-511: the first one:Title/one:OE/one:T gets the title; without one,
\* nothing changes.
SetTitle(doc, title) ==
    IF FirstTagged(doc, "Title") = 0 THEN doc
    ELSE [doc EXCEPT !.children[FirstTagged(doc, "Title")] = TitleOf(title)]

\* A mutant of AppendBody: the page's last outline is replaced, when it has one.
AppendBodyReplacing(doc, body) ==
    IF doc.children # <<>> /\ doc.children[Len(doc.children)].tag = "Outline"
    THEN [doc EXCEPT !.children[Len(doc.children)] = OutlineOf(body)]
    ELSE [doc EXCEPT !.children = Append(@, OutlineOf(body))]

\* Lines 522-531 and 553-562: DocumentElement.AppendChild(outline).
AppendBody(doc, body) == [doc EXCEPT !.children = Append(@, OutlineOf(body))]

-----------------------------------------------------------------------------
(* The generated scripts (lines 495-535, 547-566)                          *)

Step(op, var) == [op |-> op, var |-> var]

\* A mutant of CreateScript: title and body in one round trip.
CreateScriptOneRoundTrip ==
    << Step("CreateNewPage", "pageId"), Step("GetPageContent", "xml"),
       Step("SetTitle", "xml"), Step("AppendBody", "xml"),
       Step("UpdatePageContent", "xml"), Step("WriteOutput", "pageId") >>

\* The script of _com_create_page, statement by statement.
CreateScript ==
    << Step("CreateNewPage", "pageId"), Step("GetPageContent", "xml"),
       Step("SetTitle", "xml"), Step("UpdatePageContent", "xml"),
       Step("GetPageContent", "xml2"), Step("AppendBody", "xml2"),
       Step("UpdatePageContent", "xml2"), Step("WriteOutput", "pageId") >>

\* The script of _com_append_to_page.
AppendScript ==
    << Step("GetPageContent", "xml"), Step("AppendBody", "xml"),
       Step("UpdatePageContent", "xml"), Step("WriteOutput", "OK") >>

\* The statements that call the OneNote application.
ComOps == {"CreateNewPage", "GetPageContent", "UpdatePageContent"}

-----------------------------------------------------------------------------
(* The write tools (lines 573-691)                                         *)

\* Why a script run ends without its output: lines 474-480.
ScriptFaults == {"timeout", "error", "absent"}

WriteTools == {"list_live_notebooks", "create_page", "list_live_pages", "append_to_page"}

\* A reply of a write tool: what kind of string it is, the automation failure met
\* during the call ("none" without one) and the failure the string reports.
ComReply(tool, kind, fault, carries) ==
    [tool |-> tool, kind |-> kind, fault |-> fault, carries |-> carries]

\* The failure a hierarchy fetch met, "none" when it ended well.
FaultOf(fetch) == IF fetch = "ok" THEN "none" ELSE fetch

\* The lines of list_live_notebooks for one notebook (lines 613-619).
NotebookLines(nb) ==
    LET shown == SelectSeq(IterSections(nb.children), LAMBDA sec : ~sec.isInRecycleBin)
    IN [notebook |-> nb.name,
        sections |-> [j \in 1..Len(shown) |->
                         [name |-> shown[j].name, locked |-> shown[j].locked]]]

\* list_live_notebooks (lines 598-623).
ListLiveNotebooks(hier, fetch) ==
    IF fetch # "ok"
    THEN ComReply("list_live_notebooks", "CouldNotConnect", FaultOf(fetch), "none")
    ELSE IF hier = <<>>
    THEN ComReply("list_live_notebooks", "NoNotebooks", "none", "none")
    ELSE ComReply("list_live_notebooks", "ok", "none", "none")
         @@ [lines |-> [i \in 1..Len(hier) |-> NotebookLines(hier[i])]]

\* The name attribute of a page in the hierarchy: its title.
PageName(page) ==
    IF FirstTagged(page.doc, "Title") = 0 THEN "(untitled)"
    ELSE page.doc.children[FirstTagged(page.doc, "Title")].children[1].children[1].cdata

\* _com_list_pages (lines 573-590).
ComListPages(store, hier, fetch, sectionId) ==
    IF fetch # "ok" THEN <<>>
    ELSE LET all == IterSections(Flatten([i \in 1..Len(hier) |-> hier[i].children]))
         IN IF \A i \in 1..Len(all) : all[i].ID # sectionId THEN <<>>
            ELSE LET kept == SelectSeq(store, LAMBDA pg : /\ pg.section = sectionId
                                                          /\ ~pg.isInRecycleBin)
                 IN [i \in 1..Len(kept) |-> [id |-> kept[i].ID, name |-> PageName(kept[i])]]

\* list_live_pages (lines 652-676): fetch1 ends the hierarchy fetch of
\* _com_find_section_id, fetch2 that of _com_list_pages.
ListLivePages(store, hier, fetch1, fetch2, notebookName, sectionName) ==
    LET id == ComFindSectionId(hier, fetch1, notebookName, sectionName)
        found == ComListPages(store, hier, fetch2, id)
    IN IF id = None
       THEN ComReply("list_live_pages", "SectionNotFound", FaultOf(fetch1), "none")
       ELSE IF found = <<>>
       THEN ComReply("list_live_pages", "NoPages", FaultOf(fetch2), "none")
       ELSE ComReply("list_live_pages", "ok", "none", "none") @@ [lines |-> found]

\* No page ID: $pageId before CreateNewPage has filled it (line 497).
NoPage == <<>>

\* _com_create_page's result (lines 536-539) for what the script run gave: ok and
\* the output, or the failure that ended the run.
CreatePageResult(ok, output, fault, why) ==
    IF ok /\ output # NoPage
    THEN ComReply("create_page", "created", fault, "none") @@ [pageId |-> output]
    ELSE ComReply("create_page", "failure", IF ok THEN fault ELSE why,
                  IF ok THEN "none" ELSE why)

\* _com_append_to_page's result (lines 567-570).
AppendResult(ok, fault, why) ==
    IF ok THEN ComReply("append_to_page", "appended", fault, "none")
    ELSE ComReply("append_to_page", "failure", why, why)

-----------------------------------------------------------------------------
(* The write path as a state machine                                       *)

\* The app holds up to MaxPages pages with up to MaxBlocks outlines in all.
MaxPages == 2
MaxBlocks == 3

Bodies == {"b1", "b2"}
Titles == {"t1"}

ComHierarchies ==
    { <<>>,
      << [name |-> <<"N", "b">>,
          children |-> << [Sec(<<"A", "l">>, <<"s", "1">>, FALSE) EXCEPT !.locked = TRUE],
                          Group(<< Sec(<<"B">>, <<"s", "2">>, TRUE) >>) >>] >> }

Page(id, section, trashed, doc) ==
    [ID |-> id, section |-> section, isInRecycleBin |-> trashed, doc |-> doc]

OldPage == Page(<<"p", "1">>, <<"s", "1">>, FALSE,
                Doc(<<TitleOf("old"), OutlineOf("old")>>))
BinnedPage == Page(<<"p", "2">>, <<"s", "1">>, TRUE, Doc(<<TitleOf("bin")>>))

NoCall == [tool |-> "none"]

\* The outlines the pages of the store hold, as places.
Blocks(store) ==
    UNION { { <<i, k>> : k \in {c \in 1..Len(store[i].doc.children) :
                                  store[i].doc.children[c].tag = "Outline"} } :
            i \in 1..Len(store) }

NewCall(tool, script, sectionId, title, body, pageId) ==
    [tool |-> tool, script |-> script, at |-> 1, sectionId |-> sectionId,
     title |-> title, body |-> body, pageId |-> pageId,
     locals |-> [v \in {"xml", "xml2"} |-> NoDoc], fault |-> "none"]

ComInit ==
    /\ scanIn = <<>> /\ scanOut = <<>>
    /\ keyIn = <<>> /\ keyOut = <<>>
    /\ disk = <<>> /\ notebooks = <<>> /\ reply = <<>>
    /\ snipIn = <<>> /\ snipOut = <<>>
    /\ findIn = <<>> /\ findOut = <<>>
    /\ live \in ComHierarchies
    /\ pages \in (IF live = <<>> THEN { <<>> }
                  ELSE { <<>>, <<OldPage>>, <<OldPage, BinnedPage>> })
    /\ comCall = NoCall
    /\ comLog = <<>>
    /\ comReply = NoReply

ComIdle == comCall = NoCall /\ comReply = NoReply
Running == comCall # NoCall
Current == comCall.script[comCall.at]
ComFrame == UNCHANGED <<keyVars, readVars, snipVars, findVars, scanVars>>

Logged(ok, doc) ==
    Append(comLog, [op |-> Current.op, var |-> Current.var, ok |-> ok, doc |-> doc])

Advanced == [comCall EXCEPT !.at = @ + 1]

\* The page of the store with the given ID, 0 without one.
PageAt(id) ==
    IF \E i \in 1..Len(pages) : pages[i].ID = id
    THEN CHOOSE i \in 1..Len(pages) : pages[i].ID = id
    ELSE 0

CallListLiveNotebooks ==
    /\ ComIdle
    /\ \E fetch \in {"ok"} \cup HierarchyFaults :
          comReply' = ListLiveNotebooks(live, fetch)
    /\ UNCHANGED <<live, pages, comCall, comLog>>
    /\ ComFrame

CallListLivePages ==
    /\ ComIdle
    /\ \E fetch1 \in {"ok"} \cup HierarchyFaults, fetch2 \in {"ok"} \cup HierarchyFaults,
          nb \in { <<"n", "b">>, <<"z", "z">> }, sec \in { <<"a", "l">>, <<"B">> } :
          comReply' = ListLivePages(pages, live, fetch1, fetch2, nb, sec)
    /\ UNCHANGED <<live, pages, comCall, comLog>>
    /\ ComFrame

\* create_page up to the start of the script (lines 641-648).
CallCreatePage ==
    /\ ComIdle
    /\ Len(pages) < MaxPages
    /\ Cardinality(Blocks(pages)) < MaxBlocks
    /\ \E fetch \in {"ok"} \cup HierarchyFaults, title \in Titles, body \in Bodies,
          nb \in { <<"n", "b">>, <<"z", "z">> }, sec \in { <<"a", "l">>, <<"B">> } :
          LET id == ComFindSectionId(live, fetch, nb, sec)
          IN IF id = None
             THEN /\ comReply' = ComReply("create_page", "SectionNotFound",
                                          FaultOf(fetch), "none")
                  /\ UNCHANGED comCall
             ELSE /\ comCall' = NewCall("create_page", CreateScript, id, title, body,
                                        NoPage)
                  /\ UNCHANGED comReply
    /\ UNCHANGED <<live, pages, comLog>>
    /\ ComFrame

\* append_to_page up to the start of the script (line 690).
CallAppendToPage ==
    /\ ComIdle
    /\ Cardinality(Blocks(pages)) < MaxBlocks
    /\ \E id \in {pages[i].ID : i \in 1..Len(pages)} \cup { <<"p", "0">> },
          body \in Bodies :
          comCall' = NewCall("append_to_page", AppendScript, None, "none", body, id)
    /\ UNCHANGED <<live, pages, comLog, comReply>>
    /\ ComFrame

\* $onenote.CreateNewPage(section, [ref]$pageId, 0): line 498.
StepCreateNewPage ==
    /\ Running /\ Current.op = "CreateNewPage"
    /\ \E titled \in BOOLEAN :
          LET id == <<"p", DigitOf(Len(pages) + 1)>>
          IN /\ pages' = Append(pages, Page(id, comCall.sectionId, FALSE,
                                            Doc(IF titled THEN <<TitleOf("")>> ELSE <<>>)))
             /\ comCall' = [Advanced EXCEPT !.pageId = id]
    /\ comLog' = Logged(TRUE, NoDoc)
    /\ UNCHANGED <<live, comReply>>
    /\ ComFrame

\* $onenote.GetPageContent($pageId, [ref]$pageXml, 0); $xml = [xml]$pageXml.
StepGetPageContent ==
    /\ Running /\ Current.op = "GetPageContent"
    /\ PageAt(comCall.pageId) # 0
    /\ comCall' = [Advanced EXCEPT !.locals[Current.var] = pages[PageAt(comCall.pageId)].doc]
    /\ comLog' = Logged(TRUE, pages[PageAt(comCall.pageId)].doc)
    /\ UNCHANGED <<live, pages, comReply>>
    /\ ComFrame

\* Lines 506-511; on a variable without a document the statements fail and the
\* script goes on.
StepSetTitle ==
    /\ Running /\ Current.op = "SetTitle"
    /\ LET doc == comCall.locals[Current.var]
           new == IF doc = NoDoc THEN NoDoc ELSE SetTitle(doc, comCall.title)
       IN /\ comCall' = [Advanced EXCEPT !.locals[Current.var] = new]
          /\ comLog' = Logged(doc # NoDoc, new)
    /\ UNCHANGED <<live, pages, comReply>>
    /\ ComFrame

\* Lines 522-531 and 553-562.
StepAppendBody ==
    /\ Running /\ Current.op = "AppendBody"
    /\ LET doc == comCall.locals[Current.var]
           new == IF doc = NoDoc THEN NoDoc ELSE AppendBody(doc, comCall.body)
       IN /\ comCall' = [Advanced EXCEPT !.locals[Current.var] = new]
          /\ comLog' = Logged(doc # NoDoc, new)
    /\ UNCHANGED <<live, pages, comReply>>
    /\ ComFrame

\* $onenote.UpdatePageContent($xml.OuterXml): the page takes the submitted document.
StepUpdatePageContent ==
    /\ Running /\ Current.op = "UpdatePageContent"
    /\ comCall.locals[Current.var] # NoDoc
    /\ PageAt(comCall.pageId) # 0
    /\ pages' = [pages EXCEPT ![PageAt(comCall.pageId)].doc = comCall.locals[Current.var]]
    /\ comCall' = Advanced
    /\ comLog' = Logged(TRUE, comCall.locals[Current.var])
    /\ UNCHANGED <<live, comReply>>
    /\ ComFrame

\* A call of the OneNote application raises: the statement has no effect and, the
\* script setting no error preference, the next statement runs.
StepRaises ==
    /\ Running /\ Current.op \in ComOps
    /\ comCall' = [Advanced EXCEPT !.fault = IF @ = "none" THEN "error" ELSE @]
    /\ comLog' = Logged(FALSE, NoDoc)
    /\ UNCHANGED <<live, pages, comReply>>
    /\ ComFrame

\* Write-Output ends the script with exit code 0 (lines 534, 565); the tool returns
\* the helper's message (lines 648, 690).
StepWriteOutput ==
    /\ Running /\ Current.op = "WriteOutput"
    /\ comReply' = IF comCall.tool = "create_page"
                   THEN CreatePageResult(TRUE, comCall.pageId, comCall.fault, "none")
                   ELSE AppendResult(TRUE, comCall.fault, "none")
    /\ comCall' = NoCall
    /\ UNCHANGED <<live, pages, comLog>>
    /\ ComFrame

\* The script run ends without its output (lines 474-480): killed after the
\* timeout, a non-zero exit code, or no powershell.exe to start.
ScriptFails ==
    /\ Running
    /\ \E why \in ScriptFaults :
          /\ why = "absent" => comCall.at = 1
          /\ comReply' = IF comCall.tool = "create_page"
                         THEN CreatePageResult(FALSE, NoPage, comCall.fault, why)
                         ELSE AppendResult(FALSE, comCall.fault, why)
    /\ comCall' = NoCall
    /\ UNCHANGED <<live, pages, comLog>>
    /\ ComFrame

\* The caller takes the reply.
ReturnComReply ==
    /\ comCall = NoCall
    /\ comReply # NoReply
    /\ comReply' = NoReply
    /\ comLog' = <<>>
    /\ UNCHANGED <<live, pages, comCall>>
    /\ ComFrame

ComNext ==
    \/ CallListLiveNotebooks
    \/ CallListLivePages
    \/ CallCreatePage
    \/ CallAppendToPage
    \/ StepCreateNewPage
    \/ StepGetPageContent
    \/ StepSetTitle
    \/ StepAppendBody
    \/ StepUpdatePageContent
    \/ StepRaises
    \/ StepWriteOutput
    \/ ScriptFails
    \/ ReturnComReply

SpecCom == ComInit /\ [][ComNext]_vars

-----------------------------------------------------------------------------
(* The claims about the write path                                         *)

\* The block one call is to add: Outline > OEChildren > OE > T around the body.
Block(body) ==
    [tag |-> "Outline",
     children |-> <<[tag |-> "OEChildren",
                     children |-> <<[tag |-> "OE",
                                     children |-> <<[tag |-> "T", cdata |-> body]>>]>>]>>]

\* new is old with exactly one child more, the block of body, as the last one,
\* every child of old unchanged and in place.
OneBlockMore(old, new, body) ==
    /\ new.root = old.root
    /\ Len(new.children) = Len(old.children) + 1
    /\ \A k \in 1..Len(old.children) : new.children[k] = old.children[k]
    /\ new.children[Len(new.children)] = Block(body)

\* C7: appendBody is append-only.  Whenever the body statements of a script run
\* on a document, and whenever a call of append_to_page changes a page of the
\* OneNote app, the document afterwards is the one before with every child
\* unchanged and in place and exactly one Outline > OEChildren > OE > T block of
\* the call's body added as the last child; a second call on the same page puts
\* its block after the block of the first.
C7_AppendOnly ==
    [][ /\ (Running /\ Current.op = "AppendBody" /\ comCall'.tool = comCall.tool
              /\ comCall.locals[Current.var] # NoDoc)
           => OneBlockMore(comCall.locals[Current.var],
                           comCall'.locals[Current.var], comCall.body)
        /\ (Running /\ comCall.tool = "append_to_page")
           => /\ Len(pages') = Len(pages)
              /\ \A i \in 1..Len(pages) :
                    pages'[i] # pages[i] =>
                       /\ pages'[i] = [pages[i] EXCEPT !.doc = pages'[i].doc]
                       /\ OneBlockMore(pages[i].doc, pages'[i].doc, comCall.body)
                       /\ \A e \in 1..Len(comLog) :
                             ~(comLog[e].op = "UpdatePageContent" /\ comLog[e].ok) ]_vars

\* Two calls of append_to_page on the page 'p1', with 'b1' and then with 'b2',
\* have ended well: the page holds its old title and outline, then the two blocks.
C7_Witness ==
    /\ comReply.tool = "append_to_page"
    /\ comReply.kind = "appended"
    /\ comReply.fault = "none"
    /\ Len(pages) >= 1
    /\ pages[1].doc.children =
          <<TitleOf("old"), OutlineOf("old"), Block("b1"), Block("b2")>>

\* The replies that report a failure: the helpers' "Failed to ..." messages and
\* list_live_notebooks' "Could not connect to OneNote".
FailureKinds == {"failure", "CouldNotConnect"}

\* C8: when an automation-surface call of a write tool times out, fails or finds
\* no transport, the returned string reports a failure; it is never a NotFound
\* answer, an empty list or a success that drops the failure.
C8_FailureSurfaced ==
    (comReply.tool \in WriteTools /\ comReply.fault # "none")
        => comReply.kind \in FailureKinds

\* The automation-surface steps of createPage, in order.
CreateOrder ==
    << "CreateNewPage", "GetPageContent", "SetTitle", "UpdatePageContent",
       "GetPageContent", "AppendBody", "UpdatePageContent" >>

\* The log entries before entry i that have the given op.
Before(i, op) == {e \in 1..(i - 1) : comLog[e].op = op}

\* C9: a call of create_page runs create, fetch, setTitle, submit, re-fetch,
\* appendBody, submit in this order and no other; the body goes into a document
\* fetched after the first submit, the first submitted document holds no body
\* block, and success is reported only after the second submit.
C9_CreateOrder ==
    (comCall.tool = "create_page" \/ comReply.tool = "create_page") =>
        /\ Len(comLog) <= Len(CreateOrder)
        /\ \A i \in 1..Len(comLog) : comLog[i].op = CreateOrder[i]
        /\ \A i \in 1..Len(comLog) :
              comLog[i].op = "AppendBody" =>
                 \E u \in Before(i, "UpdatePageContent"), g \in Before(i, "GetPageContent") :
                    /\ u < g
                    /\ comLog[g].var = comLog[i].var
        /\ \A i \in 1..Len(comLog) :
              (comLog[i].op = "UpdatePageContent" /\ Before(i, "UpdatePageContent") = {})
                 => \A k \in 1..Len(comLog[i].doc.children) :
                       comLog[i].doc.children[k].tag # "Outline"
        /\ comReply.kind = "created" =>
              /\ Len(comLog) = Len(CreateOrder)
              /\ Cardinality(Before(Len(comLog) + 1, "UpdatePageContent")) = 2

\* A call of create_page has ended well with all its steps done: the new page
\* holds the title and then the body block.
C9_Witness ==
    /\ comReply.tool = "create_page"
    /\ comReply.kind = "created"
    /\ comReply.fault = "none"
    /\ Len(comLog) = 7
    /\ PageAt(comReply.pageId) # 0
    /\ pages[PageAt(comReply.pageId)].doc.children = <<TitleOf("t1"), Block("b1")>>

-----------------------------------------------------------------------------
(* The trash test of the catalog scan on one file (lines 102-106)          *)

ScanRoots == { RootDir, <<"/">> \o RecycleBin \o <<"/", "d">> }

ScanDirs == { <<"N", "b">>, RecycleBin, <<"M", "y">> \o RecycleBin }

ScanSubPaths ==
    { <<>>, <<RecycleBin>>, <<<<"O", "n", "e">> \o RecycleBin>>, <<<<"s">>, RecycleBin>>,
      <<<<"s">>>> }

ScanNames ==
    { <<"A", "l">> \o DotOne,
      RecycleBin \o DotOne,
      <<"A", "l", " ">> \o RecycleBin \o <<" ", "2">> \o DotOne,
      <<"A", "l", ".", "t", "x", "t">> }

ScanInit ==
    /\ keyIn = <<>> /\ keyOut = <<>>
    /\ disk = <<>> /\ notebooks = <<>> /\ reply = <<>>
    /\ snipIn = <<>> /\ snipOut = <<>>
    /\ findIn = <<>> /\ findOut = <<>>
    /\ live = <<>> /\ pages = <<>> /\ comCall = <<>> /\ comLog = <<>> /\ comReply = <<>>
    /\ scanIn \in [root : ScanRoots, nb : ScanDirs, rel : ScanSubPaths, fname : ScanNames]
    /\ scanOut = [done |-> FALSE]

\* The scan meets the file of scanIn.
ScanFile ==
    /\ ~scanOut.done
    /\ scanOut' = [done |-> TRUE, taken |-> Taken(scanIn.root, scanIn)]
    /\ UNCHANGED <<scanIn, keyVars, readVars, snipVars, findVars, comVars>>

ScanNext == ScanFile

SpecScan == ScanInit /\ [][ScanNext]_vars

\* The segments of the file's path below the backup directory.
Segments(f) == <<f.nb>> \o f.rel \o <<f.fname>>

\* C11: a file with the extension '.one' under a notebook directory is excluded
\* from the catalog if and only if a segment of its path is 'RecycleBin'; the text
\* inside a longer file or directory name, or in the path of the backup directory
\* only, does not exclude it.
C11_ExcludedIffTrashSegment ==
    (scanOut.done /\ EndsWith(scanIn.fname, DotOne)) =>
        (~scanOut.taken <=> \E k \in 1..Len(Segments(scanIn)) :
                               Segments(scanIn)[k] = RecycleBin)

-----------------------------------------------------------------------------
(* Two more claims about the read tools                                    *)

\* The notebook a query is to resolve to: the first of the catalog, in its
\* iteration order, whose name equals the query ignoring case; 0 without one.
FirstInCatalog(nbs, q) ==
    LET hits == {i \in 1..Len(nbs) : Lower(nbs[i].name) = Lower(q)}
    IN IF hits = {} THEN 0 ELSE CHOOSE i \in hits : \A j \in hits : i <= j

\* C12: list_sections, read_section and get_notebook_summary resolve a query to
\* the same notebook, the first in catalog iteration order whose name equals the
\* query ignoring case, also when two names of the catalog differ by case only;
\* the exact match of list_sections never changes the notebook chosen.
C12_SameNotebookForAllTools ==
    (/\ reply.tool \in {"list_sections", "read_section", "get_notebook_summary"}
     /\ reply.kind \in {"ok", "NoText", "SectionNotFound"})
        => /\ FirstInCatalog(notebooks, reply.query) # 0
           /\ reply.notebook = notebooks[FirstInCatalog(notebooks, reply.query)].name

\* The fragments of the catalog's latest files that contain the query ignoring
\* case, as places: notebook, section, fragment.
MatchingFragments(nbs, query) ==
    UNION { UNION { { <<i, j, k>> :
                        k \in {t \in 1..Len(ParseOneFile(nbs[i].sections[j].latest).texts) :
                                  Contains(Lower(ParseOneFile(nbs[i].sections[j].latest).texts[t]),
                                           Lower(query))} } :
                    j \in 1..Len(nbs[i].sections) } :
            i \in 1..Len(nbs) }

\* C13: when search_notes reports matches, the count of its header equals the
\* number of results listed beneath it, also with more than 30 matching
\* fragments; and it answers 'No results found' exactly when no fragment matches.
C13_HeaderCountsListed ==
    reply.tool = "search_notes" =>
        /\ reply.kind = "ok" => reply.found = Len(reply.results)
        /\ reply.kind = "NoResults" <=> MatchingFragments(notebooks, reply.query) = {}

=============================================================================
